---------------------------- MODULE Spec2Model ----------------------------
(***************************************************************************)
(* Drag-and-drop task board (szetok/drag-drop-typescript).                 *)
(*                                                                         *)
(* The store (ProjectState), the list views (ProjectList), the item views  *)
(* (ProjectItem), the input form (ProjectInput) and the validation helper  *)
(* (validate), as state machines.  Objects live in heaps: Project objects  *)
(* in objs (an array holds references to them) and arrays in arrays, so    *)
(* that what Array.prototype.slice copies and what it shares is visible.   *)
(*                                                                         *)
(* Text is a sequence of one-character strings, so that length and trim    *)
(* are computed; identities are opaque tokens.                             *)
(***************************************************************************)
EXTENDS Integers, Sequences, FiniteSets, TLC

VARIABLES
  objs,       \* the Project objects created so far, in creation order
  arrays,     \* the arrays: reference -> sequence of references into objs
  held,       \* the array each generic subscriber retains ("null": none)
  listeners,  \* ProjectState.listeners, in registration order
  lists,      \* the ProjectList views, by type
  drag,       \* the DragEvent.dataTransfer of the drag in progress
  form,       \* the values of ProjectInput's three input elements
  call,       \* the handler that ran last, with its arguments and outcome
  calls,      \* the listener invocations made while that handler ran
  vin,        \* validate: the Validatable it was applied to
  vout        \* validate: what it returned

vars == <<objs, arrays, held, listeners, lists, drag, form, call, calls, vin, vout>>

-----------------------------------------------------------------------------
(* Bounds *)

MaxProjects == 2

MaxListeners == 2

-----------------------------------------------------------------------------
(* Values *)

\* enum ProjectStatus { Active, Finished }
ProjectStatus == {"Active", "Finished"}

\* 'active' | 'finished', the type of a ProjectList
ListType == {"active", "finished"}

\* Math.random().toString(): the n-th token of the generator's stream.
\* Tokens are opaque (the code only compares them for equality), so one
\* stream of pairwise different tokens stands for all of them; two calls
\* giving the same token is left out.
RandomToken(n) == "0." \o ToString((31 * n + 11) % 100)

\* An identity no Project of this page has: a payload dragged in from
\* another page load.
StaleId == "0.99"

\* The generic subscribers of the store: "mutator" retains the array of
\* each notification and changes it afterwards; "keeper" retains the first
\* array it is given.
Subscribers == {"mutator", "keeper"}

\* What a listener entry can be: a ProjectList's listener or a subscriber.
Callbacks == ListType \cup Subscribers

\* Array references: the store's own array, the array a subscriber
\* retains, and an array nobody retains after the call it was passed to.
StoreRef == "projects"

TmpRef == "tmp"

Refs == {StoreRef, TmpRef} \cup Subscribers

\* Arguments of addProject: title, description, people.
Title1 == <<"A">>

Title2 == <<"B">>

Descr == <<"a", "b", "c", "d", "e">>

\* A JavaScript number: an integer, or NaN.
Num(n) == [nan |-> FALSE, n |-> n]

NaN == [nan |-> TRUE, n |-> 0]

AddArgs == {<<Title1, Descr, Num(1)>>, <<Title2, Descr, Num(3)>>}

-----------------------------------------------------------------------------
(* Helpers *)

\* new Project(id, title, description, people, status)
Project(id, title, description, people, status) ==
  [id |-> id, title |-> title, description |-> description,
   people |-> people, status |-> status]

\* The Project objects an array holds, as values.
Items(os, arr) == [i \in DOMAIN arr |-> os[arr[i]]]

\* The store's item sequence.
Projects == Items(objs, arrays[StoreRef])

\* The index of the first element of arr whose Project has identity id,
\* 0 when there is none: Array.prototype.find.
FindIndex(os, arr, id) ==
  IF \E i \in DOMAIN arr : os[arr[i]].id = id
  THEN CHOOSE i \in DOMAIN arr :
         /\ os[arr[i]].id = id
         /\ \A j \in 1..(i - 1) : os[arr[j]].id # id
  ELSE 0

\* Text
Digit == <<"0", "1", "2", "3", "4", "5", "6", "7", "8", "9">>

IsSpace(c) == c = " "

IsDigit(c) == \E d \in DOMAIN Digit : Digit[d] = c

DigitValue(c) == (CHOOSE d \in DOMAIN Digit : Digit[d] = c) - 1

\* String.prototype.trim
RECURSIVE TrimStart(_)
TrimStart(s) == IF s # <<>> /\ IsSpace(Head(s)) THEN TrimStart(Tail(s)) ELSE s

RECURSIVE TrimEnd(_)
TrimEnd(s) ==
  IF s # <<>> /\ IsSpace(s[Len(s)]) THEN TrimEnd(SubSeq(s, 1, Len(s) - 1)) ELSE s

Trim(s) == TrimEnd(TrimStart(s))

\* Number.prototype.toString, of an integer or NaN
RECURSIVE NatToString(_)
NatToString(n) ==
  IF n < 10 THEN <<Digit[n + 1]>>
  ELSE Append(NatToString(n \div 10), Digit[(n % 10) + 1])

NumToString(x) ==
  IF x.nan THEN <<"N", "a", "N">>
  ELSE IF x.n < 0 THEN <<"-">> \o NatToString(0 - x.n)
  ELSE NatToString(x.n)

\* The unary plus of a string, +people: the trimmed text read as a
\* decimal integer, 0 when it is empty, NaN when it is no number.
RECURSIVE DigitsValue(_)
DigitsValue(s) ==
  IF s = <<>> THEN 0
  ELSE 10 * DigitsValue(SubSeq(s, 1, Len(s) - 1)) + DigitValue(s[Len(s)])

AllDigits(s) == s # <<>> /\ \A i \in DOMAIN s : IsDigit(s[i])

ToNumber(s) ==
  LET t == Trim(s)
  IN  IF t = <<>> THEN Num(0)
      ELSE IF AllDigits(t) THEN Num(DigitsValue(t))
      ELSE IF Head(t) = "-" /\ AllDigits(Tail(t)) THEN Num(0 - DigitsValue(Tail(t)))
      ELSE IF Head(t) = "+" /\ AllDigits(Tail(t)) THEN Num(DigitsValue(Tail(t)))
      ELSE NaN

-----------------------------------------------------------------------------
(* Component *)

\* The constructor of the base class, as the steps it takes in order: the
\* template's content is imported, the root element is given newElementId
\* when one is passed, and the element is attached to the host.
Component(newElementId) ==
  <<"importNode">> \o (IF newElementId # "" THEN <<"id">> ELSE <<>>) \o <<"attach">>

-----------------------------------------------------------------------------
(* ProjectItem *)

\* get persons
Persons(project) ==
  IF (~project.people.nan) /\ project.people.n = 1
  THEN <<"1", " ", "p", "e", "r", "s", "o", "n">>
  ELSE NumToString(project.people) \o <<" ", "p", "e", "r", "s", "o", "n", "s">>

\* new ProjectItem(hostId, project): the <li> it attaches, with the id the
\* base constructor assigns and the text renderContent writes; steps are
\* the steps of the constructor: super(...), configure(), renderContent().
ProjectItem(os, ref) ==
  [id      |-> os[ref].id,
   project |-> ref,
   steps   |-> Component(os[ref].id) \o <<"configure", "renderContent">>,
   h2      |-> os[ref].title,
   h3      |-> Persons(os[ref]) \o <<" ", "a", "s", "s", "i", "g", "n", "e", "d">>,
   p       |-> os[ref].description]

-----------------------------------------------------------------------------
(* ProjectList *)

\* A plausible slip: the filter of the finished list lets every item through.
ShowsAllWhenFinished(type, proj) ==
  IF type = "active" THEN proj.status = "Active" ELSE TRUE

\* The predicate of the listener's filter: whether a list shows proj.
Shows(type, proj) ==
  IF type = "active" THEN proj.status = "Active" ELSE proj.status = "Finished"

\* A plausible slip: the ternary of dropHandler the wrong way round.
DropStatusSwapped(type) == IF type = "active" THEN "Finished" ELSE "Active"

\* The status dropHandler passes to moveProject.
DropStatus(type) == IF type = "active" THEN "Active" ELSE "Finished"

\* A list that has not been constructed.  registeredAt is the number of
\* items the store held when the list registered its listener.
NoList == [constructed |-> FALSE, assignedProjects |-> <<>>, ul |-> <<>>,
           droppable |-> FALSE, steps |-> <<>>, registeredAt |-> 0]

\* projects.filter(proj => ...) in the listener of configure()
RelevantProjects(type, os, arr) ==
  SelectSeq(arr, LAMBDA r : Shows(type, os[r]))

\* A plausible slip: the list is not cleared before it is rendered again.
ClearListKeeps(ul) == ul

\* listElement.innerHTML = ''
ClearList(ul) == <<>>

\* A plausible slip: the items are attached 'afterbegin', each before the
\* ones attached so far.
RECURSIVE AttachItemsAtStart(_, _, _, _)
AttachItemsAtStart(ul, os, assigned, i) ==
  IF i > Len(assigned) THEN ul
  ELSE AttachItemsAtStart(<<ProjectItem(os, assigned[i])>> \o ul, os, assigned, i + 1)

\* renderProjects(): the <ul> is cleared, then one ProjectItem per assigned
\* project is attached 'beforeend'.
RECURSIVE AttachItems(_, _, _, _)
AttachItems(ul, os, assigned, i) ==
  IF i > Len(assigned) THEN ul
  ELSE AttachItems(Append(ul, ProjectItem(os, assigned[i])), os, assigned, i + 1)

RenderProjects(ul, os, assigned) == AttachItems(ClearList(ul), os, assigned, 1)

\* The listener a ProjectList registers in configure().
ListListener(list, type, os, arr) ==
  LET relevantProjects == RelevantProjects(type, os, arr)
  IN  [list EXCEPT !.assignedProjects = relevantProjects,
                   !.ul = RenderProjects(list.ul, os, relevantProjects)]

-----------------------------------------------------------------------------
(* ProjectState *)

\* A plausible slip: this.projects is passed, not a copy of it.
SliceShared(cb) == StoreRef

\* this.projects.slice(): the reference of the array the listener cb is
\* passed, a new array.  A subscriber's array is named after it; a list's
\* listener does not retain its array.
Slice(cb) == IF cb \in Subscribers THEN cb ELSE TmpRef

\* One listener invocation, listenerFunction(this.projects.slice()), on
\* st = [arrays, held, lists, calls].
Invoke(st, os, cb) ==
  LET ref  == Slice(cb)
      arrs == [st.arrays EXCEPT ![ref] = st.arrays[StoreRef]]
      log  == Append(st.calls, [cb |-> cb, items |-> Items(os, arrs[ref])])
  IN  CASE cb \in ListType ->
             [arrays |-> IF ref = TmpRef THEN [arrs EXCEPT ![TmpRef] = <<>>] ELSE arrs,
              held   |-> st.held,
              lists  |-> [st.lists EXCEPT ![cb] = ListListener(@, cb, os, arrs[ref])],
              calls  |-> log]
        [] cb = "mutator" ->
             [arrays |-> arrs,
              held   |-> [st.held EXCEPT !["mutator"] = ref],
              lists  |-> st.lists,
              calls  |-> log]
        [] cb = "keeper" ->
             IF st.held["keeper"] = "null"
             THEN [arrays |-> arrs,
                   held   |-> [st.held EXCEPT !["keeper"] = ref],
                   lists  |-> st.lists,
                   calls  |-> log]
             ELSE [arrays |-> st.arrays, held |-> st.held, lists |-> st.lists,
                   calls  |-> log]

\* A plausible slip: a listener registered twice is invoked once.
RECURSIVE NotifyFromOnce(_, _, _, _)
NotifyFromOnce(st, os, ls, i) ==
  IF i > Len(ls) THEN st
  ELSE IF \E j \in 1..(i - 1) : ls[j] = ls[i]
       THEN NotifyFromOnce(st, os, ls, i + 1)
       ELSE NotifyFromOnce(Invoke(st, os, ls[i]), os, ls, i + 1)

\* for (const listenerFunction of this.listeners) { ... }
RECURSIVE NotifyFrom(_, _, _, _)
NotifyFrom(st, os, ls, i) ==
  IF i > Len(ls) THEN st
  ELSE NotifyFrom(Invoke(st, os, ls[i]), os, ls, i + 1)

Notify(arrs, os) ==
  NotifyFrom([arrays |-> arrs, held |-> held, lists |-> lists, calls |-> <<>>],
             os, listeners, 1)

\* An identity for a new Project: Math.random().toString().
NewId == RandomToken(Len(objs))

\* The identities of the Projects created so far.
StoreIds == {objs[i].id : i \in DOMAIN objs}

\* A plausible slip: the listeners are invoked before the push.
AddProjectCallNotifiesFirst(id, title, description, people) ==
  LET newProject == Project(id, title, description, people, "Active")
      os   == Append(objs, newProject)
      st   == Notify(arrays, os)
  IN  /\ objs' = os
      /\ arrays' = [st.arrays EXCEPT ![StoreRef] = Append(@, Len(os))]
      /\ held' = st.held
      /\ lists' = st.lists
      /\ calls' = st.calls

\* addProject(title, description, people), as the store's own transition.
AddProjectCall(id, title, description, people) ==
  LET newProject == Project(id, title, description, people, "Active")
      os   == Append(objs, newProject)
      arrs == [arrays EXCEPT ![StoreRef] = Append(@, Len(os))]
      st   == Notify(arrs, os)
  IN  /\ objs' = os
      /\ arrays' = st.arrays
      /\ held' = st.held
      /\ lists' = st.lists
      /\ calls' = st.calls

\* A slip moveProject could have: the status of every item is set.
MoveProjectCallSetsAll(projectId, newStatus) ==
  LET i == FindIndex(objs, arrays[StoreRef], projectId)
  IN  IF i = 0
      THEN /\ calls' = <<>>
           /\ UNCHANGED <<objs, arrays, held, lists>>
      ELSE LET os == [k \in DOMAIN objs |-> [objs[k] EXCEPT !.status = newStatus]]
               st == Notify(arrays, os)
           IN  /\ objs' = os
               /\ arrays' = st.arrays
               /\ held' = st.held
               /\ lists' = st.lists
               /\ calls' = st.calls

\* A slip moveProject could have: the listeners are invoked whether or not
\* the item was found.
MoveProjectCallAlwaysNotifies(projectId, newStatus) ==
  LET i  == FindIndex(objs, arrays[StoreRef], projectId)
      os == IF i = 0 THEN objs
            ELSE [objs EXCEPT ![arrays[StoreRef][i]].status = newStatus]
      st == Notify(arrays, os)
  IN  /\ objs' = os
      /\ arrays' = st.arrays
      /\ held' = st.held
      /\ lists' = st.lists
      /\ calls' = st.calls

\* moveProject(projectId, newStatus), as the store's own transition.
MoveProjectCall(projectId, newStatus) ==
  LET i == FindIndex(objs, arrays[StoreRef], projectId)
  IN  IF i = 0
      THEN /\ calls' = <<>>
           /\ UNCHANGED <<objs, arrays, held, lists>>
      ELSE LET os == [objs EXCEPT ![arrays[StoreRef][i]].status = newStatus]
               st == Notify(arrays, os)
           IN  /\ objs' = os
               /\ arrays' = st.arrays
               /\ held' = st.held
               /\ lists' = st.lists
               /\ calls' = st.calls

\* projectState.addProject(...) called by a client of the store.
AddProject(args) ==
  /\ Len(objs) < MaxProjects
  /\ AddProjectCall(NewId, args[1], args[2], args[3])
  /\ call' = [op |-> "add"]
  /\ UNCHANGED <<listeners, drag, form, vin, vout>>

\* projectState.moveProject(...) called by a client of the store.
MoveProject(projectId, newStatus) ==
  /\ MoveProjectCall(projectId, newStatus)
  /\ call' = [op |-> "move", id |-> projectId, status |-> newStatus,
              found |-> FindIndex(objs, arrays[StoreRef], projectId) # 0]
  /\ UNCHANGED <<listeners, drag, form, vin, vout>>

\* projectState.addListener(listenerFunction), by a generic subscriber.
AddListener(cb) ==
  /\ Len(listeners) < MaxListeners
  /\ listeners' = Append(listeners, cb)
  /\ call' = [op |-> "addListener", cb |-> cb]
  /\ calls' = <<>>
  /\ UNCHANGED <<objs, arrays, held, lists, drag, form, vin, vout>>

\* What the mutating subscriber does to the array it retains: it removes
\* the last element, reverses the array, or adds an element.
Mutated(arr, how) ==
  CASE how = "pop"     -> IF arr = <<>> THEN arr ELSE SubSeq(arr, 1, Len(arr) - 1)
    [] how = "reverse" -> [i \in DOMAIN arr |-> arr[Len(arr) + 1 - i]]
    [] how = "push"    -> Append(arr, 1)

\* The subscriber changes an array it was given once: while the array
\* still holds what the store holds.
SubscriberMutates(how) ==
  /\ held["mutator"] # "null"
  /\ arrays[held["mutator"]] = arrays[StoreRef]
  /\ how = "push" => Len(arrays[held["mutator"]]) <= MaxProjects
  /\ arrays' = [arrays EXCEPT ![held["mutator"]] = Mutated(@, how)]
  /\ arrays' # arrays
  /\ call' = [op |-> "mutate", how |-> how]
  /\ calls' = <<>>
  /\ UNCHANGED <<objs, held, listeners, lists, drag, form, vin, vout>>

-----------------------------------------------------------------------------
(* ProjectList: construction and the drag target handlers *)

\* A plausible slip: the list renders the store's items when it is
\* constructed.
NewProjectListReplays(type) ==
  LET relevantProjects == RelevantProjects(type, objs, arrays[StoreRef])
  IN  [constructed |-> TRUE, assignedProjects |-> relevantProjects,
       ul |-> RenderProjects(<<>>, objs, relevantProjects),
       droppable |-> FALSE,
       steps |-> Component(type \o "-projects") \o <<"configure", "renderContent">>,
       registeredAt |-> Len(objs)]

\* The fields of a new ProjectList: super(..., `${type}-projects`),
\* assignedProjects = [], configure(), renderContent().
NewProjectList(type) ==
  [constructed |-> TRUE, assignedProjects |-> <<>>, ul |-> <<>>,
   droppable |-> FALSE,
   steps |-> Component(type \o "-projects") \o <<"configure", "renderContent">>,
   registeredAt |-> Len(objs)]

\* new ProjectList(type): the base constructor attaches the section,
\* assignedProjects = [], configure() registers the listener with the
\* store, renderContent() names the <ul>.  One list per type.
ConstructList(type) ==
  /\ ~lists[type].constructed
  /\ lists' = [lists EXCEPT ![type] = NewProjectList(type)]
  /\ listeners' = Append(listeners, type)
  /\ call' = [op |-> "construct", list |-> type]
  /\ calls' = <<>>
  /\ UNCHANGED <<objs, arrays, held, drag, form, vin, vout>>

\* event.dataTransfer of a drag: null, or its types and its text/plain data.
NullTransfer == [null |-> TRUE, types |-> <<>>, data |-> ""]

TextTransfer(id) == [null |-> FALSE, types |-> <<"text/plain">>, data |-> id]

FilesTransfer == [null |-> FALSE, types |-> <<"Files">>, data |-> ""]

\* A transfer that holds nothing.
EmptyTransfer == [null |-> FALSE, types |-> <<>>, data |-> ""]

\* A link dragged in: text/plain is advertised after text/uri-list.
LinkTransfer(id) ==
  [null |-> FALSE, types |-> <<"text/uri-list", "text/plain">>, data |-> id]

\* ProjectItem.dragStartHandler on the k-th item a list renders:
\* setData('text/plain', this.project.id), effectAllowed = 'move'.
DragStartHandler(type, k) ==
  /\ ~drag.active
  /\ lists[type].constructed
  /\ k \in DOMAIN lists[type].ul
  /\ drag' = [active |-> TRUE,
              dataTransfer |-> TextTransfer(objs[lists[type].ul[k].project].id),
              effectAllowed |-> "move", source |-> type]
  /\ call' = [op |-> "dragstart", list |-> type, item |-> k]
  /\ calls' = <<>>
  /\ UNCHANGED <<objs, arrays, held, listeners, lists, form, vin, vout>>

\* A drag that starts outside the board: text from another page load, a
\* link, files, nothing, or an event without a dataTransfer.
ForeignTransfers ==
  {TextTransfer(StaleId), LinkTransfer(StaleId), FilesTransfer, EmptyTransfer,
   NullTransfer}

ForeignDrag(transfer) ==
  /\ ~drag.active
  /\ drag' = [active |-> TRUE, dataTransfer |-> transfer, effectAllowed |-> "all",
              source |-> "outside"]
  /\ call' = [op |-> "foreigndrag"]
  /\ calls' = <<>>
  /\ UNCHANGED <<objs, arrays, held, listeners, lists, form, vin, vout>>

\* A plausible slip: the type of the payload is not looked at.
AcceptsDragOfAnyType(transfer) == ~transfer.null

\* dragOverHandler's condition
AcceptsDrag(transfer) ==
  (~transfer.null) /\ transfer.types # <<>> /\ transfer.types[1] = "text/plain"

\* ProjectList.dragOverHandler
DragOverHandler(type) ==
  /\ drag.active
  /\ lists[type].constructed
  /\ IF AcceptsDrag(drag.dataTransfer)
     THEN /\ lists' = [lists EXCEPT ![type].droppable = TRUE]
          /\ call' = [op |-> "dragover", list |-> type, defaultPrevented |-> TRUE]
     ELSE /\ lists' = lists
          /\ call' = [op |-> "dragover", list |-> type, defaultPrevented |-> FALSE]
  /\ calls' = <<>>
  /\ UNCHANGED <<objs, arrays, held, listeners, drag, form, vin, vout>>

\* ProjectList.dragLeaveHandler
DragLeaveHandler(type) ==
  /\ drag.active
  /\ lists[type].constructed
  /\ lists' = [lists EXCEPT ![type].droppable = FALSE]
  /\ call' = [op |-> "dragleave", list |-> type]
  /\ calls' = <<>>
  /\ UNCHANGED <<objs, arrays, held, listeners, drag, form, vin, vout>>

\* DataTransfer.getData('text/plain'): the empty string when the transfer
\* holds no text.
GetData(transfer) ==
  IF \E i \in DOMAIN transfer.types : transfer.types[i] = "text/plain"
  THEN transfer.data
  ELSE ""

\* ProjectList.dropHandler.  event.dataTransfer!.getData throws a
\* TypeError when the event has no dataTransfer.  The drag ends with the drop.
DropHandler(type) ==
  /\ drag.active
  /\ lists[type].constructed
  /\ drag' = [active |-> FALSE]
  /\ IF drag.dataTransfer.null
     THEN /\ call' = [op |-> "drop", list |-> type, threw |-> TRUE,
                      from |-> drag.source]
          /\ calls' = <<>>
          /\ UNCHANGED <<objs, arrays, held, lists>>
     ELSE LET projectId == GetData(drag.dataTransfer)
          IN  /\ MoveProjectCall(projectId, DropStatus(type))
              /\ call' = [op |-> "drop", list |-> type, threw |-> FALSE,
                          from |-> drag.source, id |-> projectId,
                          found |-> FindIndex(objs, arrays[StoreRef], projectId) # 0]
  /\ UNCHANGED <<listeners, form, vin, vout>>

\* The drag ends without a drop on a list (ProjectItem.dragEndHandler
\* does nothing).
DragEndHandler ==
  /\ drag.active
  /\ drag' = [active |-> FALSE]
  /\ call' = [op |-> "dragend"]
  /\ calls' = <<>>
  /\ UNCHANGED <<objs, arrays, held, listeners, lists, form, vin, vout>>

-----------------------------------------------------------------------------
(* validate *)

Str(s) == [t |-> "string", s |-> s]

Number(x) == [t |-> "number", x |-> x]

\* An optional property of a Validatable is a field the record has or lacks.
Has(input, f) == f \in DOMAIN input

\* input.value.toString()
ValueToString(v) == IF v.t = "string" THEN v.s ELSE NumToString(v.x)

\* a >= b and a <= b on numbers: false when one is NaN
Geq(a, b) == (~a.nan) /\ (~b.nan) /\ a.n >= b.n

Leq(a, b) == (~a.nan) /\ (~b.nan) /\ a.n <= b.n

\* if (input.required) isValid = isValid && <this>
RequiredCheck(v) == Len(Trim(ValueToString(v))) = 0

\* function validate(input: Validatable)
Validate(input) ==
  LET v  == input.value
      v1 == IF Has(input, "required") /\ input.required
            THEN RequiredCheck(v) ELSE TRUE
      v2 == IF Has(input, "minLength") /\ v.t = "string"
            THEN v1 /\ Len(v.s) >= input.minLength ELSE v1
      v3 == IF Has(input, "maxLength") /\ v.t = "string"
            THEN v2 /\ Len(v.s) <= input.maxLength ELSE v2
      v4 == IF Has(input, "min") /\ v.t = "number"
            THEN v3 /\ Geq(v.x, Num(input.min)) ELSE v3
      v5 == IF Has(input, "max") /\ v.t = "number"
            THEN v4 /\ Leq(v.x, Num(input.max)) ELSE v4
  IN  v5

\* validate(input), called on its own
ValidateCall ==
  /\ ~vout.done
  /\ vout' = [done |-> TRUE, result |-> Validate(vin)]
  /\ UNCHANGED <<objs, arrays, held, listeners, lists, drag, form, call, calls, vin>>

-----------------------------------------------------------------------------
(* ProjectInput *)

\* The three Validatables of gatherUserInput
TitleValidatable(title) == [value |-> Str(title), required |-> TRUE]

DescriptionValidatable(description) ==
  [value |-> Str(description), required |-> TRUE, minLength |-> 5]

PeopleValidatable(people) ==
  [value |-> Number(ToNumber(people)), required |-> TRUE, min |-> 0, max |-> 10]

\* gatherUserInput(): TRUE when it alerts and returns nothing
Rejects(title, description, people) ==
  \/ Validate(TitleValidatable(title))
  \/ Validate(DescriptionValidatable(description))
  \/ Validate(PeopleValidatable(people))

\* new ProjectInput(): super('project-input', 'app', true, 'user-input'),
\* the three input elements are looked up, configure().
ConstructInput ==
  /\ ~form.constructed
  /\ form' = [constructed |-> TRUE, title |-> <<>>, description |-> <<>>,
              people |-> <<>>,
              steps |-> Component("user-input") \o <<"configure">>]
  /\ call' = [op |-> "construct", list |-> "input"]
  /\ calls' = <<>>
  /\ UNCHANGED <<objs, arrays, held, listeners, lists, drag, vin, vout>>

\* submitHandler, on the form holding title, description and people
SubmitHandler(title, description, people) ==
  /\ form.constructed
  /\ Len(objs) < MaxProjects
  /\ IF Rejects(title, description, people)
     THEN /\ form' = [form EXCEPT !.title = title, !.description = description,
                                  !.people = people]
          /\ call' = [op |-> "submit", title |-> title, description |-> description,
                      people |-> people, alerted |-> TRUE, added |-> FALSE]
          /\ calls' = <<>>
          /\ UNCHANGED <<objs, arrays, held, lists>>
     ELSE /\ AddProjectCall(NewId, title, description, ToNumber(people))
          /\ form' = [form EXCEPT !.title = <<>>, !.description = <<>>,
                                  !.people = <<>>]
          /\ call' = [op |-> "submit", title |-> title, description |-> description,
                      people |-> people, alerted |-> FALSE, added |-> TRUE]
  /\ UNCHANGED <<listeners, drag, vin, vout>>

-----------------------------------------------------------------------------
(* The store and its subscribers *)

NoDrag == [active |-> FALSE]

\* Values the user types into the form
TitleInputs == {<<>>, <<" ">>, <<"A">>}

DescriptionInputs == {<<"a", "b", "c">>, Descr, <<" ", " ", " ", " ", " ">>}

PeopleInputs == {<<"3">>, <<"1", "1">>, <<"x">>}

\* Arguments of validate
ValueInputs ==
  {Str(<<>>), Str(<<" ", " ">>), Str(<<"h", "i">>), Str(<<"h", "e", "l", "l", "o">>),
   Number(Num(0 - 1)), Number(Num(0)), Number(Num(5)), Number(Num(11)), Number(NaN)}

Optional(f, vals) == {<<>>} \cup {(f :> x) : x \in vals}

Validatables ==
  {[value |-> v] @@ r @@ a @@ b @@ c @@ d :
     v \in ValueInputs,
     r \in Optional("required", {TRUE, FALSE}),
     a \in Optional("minLength", {3}),
     b \in Optional("maxLength", {4}),
     c \in Optional("min", {0}),
     d \in Optional("max", {10})}

\* The form before it is constructed.
EmptyForm == [constructed |-> FALSE, title |-> <<>>, description |-> <<>>,
              people |-> <<>>, steps |-> <<>>]

NoValidatable == [value |-> Str(<<>>)]

InitBoard ==
  /\ objs = <<>>
  /\ arrays = [r \in Refs |-> <<>>]
  /\ held = [s \in Subscribers |-> "null"]
  /\ listeners = <<>>
  /\ lists = [t \in ListType |-> NoList]
  /\ drag = NoDrag
  /\ form = EmptyForm
  /\ call = [op |-> "init"]
  /\ calls = <<>>
  /\ vout = [done |-> FALSE]

Init ==
  /\ InitBoard
  /\ vin = NoValidatable

StoreNext ==
  \/ \E args \in AddArgs : AddProject(args)
  \/ \E id \in StoreIds \cup {StaleId}, s \in ProjectStatus : MoveProject(id, s)
  \/ \E cb \in Subscribers : AddListener(cb)
  \/ \E how \in {"pop", "reverse", "push"} : SubscriberMutates(how)

StoreSpec == Init /\ [][StoreNext]_vars

\* The board: the two lists, items added, and drags.
Next ==
  \/ \E type \in ListType : ConstructList(type)
  \/ \E args \in AddArgs : AddProject(args)
  \/ \E type \in ListType, k \in 1..MaxProjects : DragStartHandler(type, k)
  \/ \E transfer \in ForeignTransfers : ForeignDrag(transfer)
  \/ \E type \in ListType : DragOverHandler(type)
  \/ \E type \in ListType : DragLeaveHandler(type)
  \/ \E type \in ListType : DropHandler(type)
  \/ DragEndHandler

Spec == Init /\ [][Next]_vars

\* The input form and the lists.
FormNext ==
  \/ ConstructInput
  \/ \E type \in ListType : ConstructList(type)
  \/ \E t \in TitleInputs, d \in DescriptionInputs, p \in PeopleInputs :
       SubmitHandler(t, d, p)

FormSpec == Init /\ [][FormNext]_vars

\* validate on its own.
ValidateInit ==
  /\ InitBoard
  /\ vin \in Validatables

ValidateSpec == ValidateInit /\ [][ValidateCall]_vars

-----------------------------------------------------------------------------
(* The store: add, move, notification (StoreSpec) *)

\* The identities of the store's items.
ProjectIds == {Projects[i].id : i \in DOMAIN Projects}

\* The last handler changed the store: an add, or a move that found its item.
Mutation ==
  \/ call.op = "add"
  \/ call.op = "move" /\ call.id \in ProjectIds

\* C1: after n adds the store's sequence, and every snapshot delivered by
\* the last add, has n items (one Project object is constructed per add, so
\* n is the number of objects), and the item an add creates is Active.
C1_AddLengthAndActive ==
  /\ Len(Projects) = Len(objs)
  /\ call.op = "add" =>
       /\ Projects[Len(Projects)] = objs[Len(objs)]
       /\ Projects[Len(Projects)].status = "Active"
       /\ \A k \in DOMAIN calls :
            /\ Len(calls[k].items) = Len(objs)
            /\ calls[k].items[Len(objs)].status = "Active"

C1_Witness ==
  /\ call.op = "add"
  /\ Len(objs) = 2
  /\ Len(calls) = 2

\* C2: a move of an identity the store holds sets that item's status to
\* the status given and changes nothing else: not the item's other fields,
\* not another item, not the length or the order of the sequence.
C2_MoveSetsStatusOnly ==
  [][(call'.op = "move" /\ call'.id \in ProjectIds) =>
       /\ arrays'[StoreRef] = arrays[StoreRef]
       /\ Len(objs') = Len(objs)
       /\ \A i \in DOMAIN Projects :
            Projects'[i] =
              IF Projects[i].id = call'.id
              THEN [Projects[i] EXCEPT !.status = call'.status]
              ELSE Projects[i]]_vars

C2_Witness ==
  /\ call.op = "move"
  /\ Len(Projects) = 2
  /\ call.id = Projects[1].id
  /\ Projects[1].status = "Finished"
  /\ Projects[2].status = "Active"

\* C3: a move of an identity the store does not hold changes neither the
\* store nor any subscriber's state, and invokes no listener.
C3_MoveMissingIsNoOp ==
  [][(call'.op = "move" /\ call'.id \notin ProjectIds) =>
       /\ objs' = objs
       /\ arrays' = arrays
       /\ held' = held
       /\ lists' = lists
       /\ calls' = <<>>]_vars

C3_Witness ==
  /\ call.op = "move"
  /\ call.id \notin ProjectIds
  /\ Len(Projects) = 2
  /\ Len(listeners) = 2

\* C4: an add, and a move that finds its item, invoke every entry of the
\* listener list once, in registration order, each with the store's
\* sequence as it is after the mutation, within the call; no other handler
\* invokes a listener.
C4_NotifiesEachInOrder ==
  IF Mutation
  THEN calls = [i \in DOMAIN listeners |-> [cb |-> listeners[i], items |-> Projects]]
  ELSE calls = <<>>

C4_Witness ==
  /\ Mutation
  /\ Len(listeners) = 2
  /\ listeners[1] = listeners[2]
  /\ Len(calls) = 2
  /\ Len(Projects) = 2

\* C5: when a subscriber adds, removes or reorders elements of the array
\* it was passed, the store's array, the array another subscriber retains
\* and the Project objects stay as they were.
C5_SubscriberArrayIsItsOwn ==
  [][call'.op = "mutate" =>
       /\ arrays'[StoreRef] = arrays[StoreRef]
       /\ held["keeper"] # "null" =>
            arrays'[held'["keeper"]] = arrays[held["keeper"]]
       /\ objs' = objs
       /\ lists' = lists]_vars

C5_Witness ==
  /\ call.op = "mutate"
  /\ held["keeper"] # "null"
  /\ Len(Projects) = 2
  /\ arrays[held["mutator"]] # arrays[StoreRef]
  /\ arrays[held["keeper"]] = arrays[StoreRef]

\* What the keeping subscriber sees when it reads the array it retained.
KeptSnapshot == Items(objs, arrays[held["keeper"]])

\* The fields of an item that no operation changes.
Fixed(proj) ==
  [id |-> proj.id, title |-> proj.title, description |-> proj.description,
   people |-> proj.people]

\* C6 as claimed: a snapshot a subscriber has kept shows, after any later
\* add or move, the items and the field values, status included, it showed
\* when it was delivered.
C6_KeptSnapshotIsFrozen ==
  [][held["keeper"] # "null" => KeptSnapshot' = KeptSnapshot]_vars

\* C6 as amended: a snapshot a subscriber has kept holds, after any later
\* add or move, the same items in the same order with the same id, title,
\* description and people; the items are the store's own objects, so the
\* status it shows for an item is the item's status in the store.
C6_KeptSnapshotSharesItems ==
  [][held["keeper"] # "null" =>
       /\ held'["keeper"] = held["keeper"]
       /\ arrays'[held["keeper"]] = arrays[held["keeper"]]
       /\ Len(KeptSnapshot') = Len(KeptSnapshot)
       /\ \A i \in DOMAIN KeptSnapshot :
            /\ Fixed(KeptSnapshot'[i]) = Fixed(KeptSnapshot[i])
            /\ \E j \in DOMAIN Projects' :
                 /\ Projects'[j].id = KeptSnapshot'[i].id
                 /\ Projects'[j].status = KeptSnapshot'[i].status]_vars

\* The kept snapshot is older than the store: an item was added after it
\* was delivered, and an item it holds was moved since.
C6_Witness ==
  /\ held["keeper"] # "null"
  /\ Len(KeptSnapshot) = 1
  /\ Len(Projects) = 2
  /\ KeptSnapshot[1].status = "Finished"
  /\ call.op = "move"

-----------------------------------------------------------------------------
(* The board: lists, rendering, drag and drop (Spec) *)

\* The items of seq that a list of this type shows, in order.
RECURSIVE FilterBy(_, _)
FilterBy(type, seq) ==
  IF seq = <<>> THEN <<>>
  ELSE IF Head(seq).status = (IF type = "active" THEN "Active" ELSE "Finished")
       THEN <<Head(seq)>> \o FilterBy(type, Tail(seq))
       ELSE FilterBy(type, Tail(seq))

\* The snapshot the list's listener was passed by the last handler.
SnapshotOf(type) ==
  calls[CHOOSE k \in DOMAIN calls : calls[k].cb = type].items

Notified(type) == \E k \in DOMAIN calls : calls[k].cb = type

\* C7: after a notification a list's assignedProjects and the items its
\* <ul> renders are the items of the snapshot whose status is the list's,
\* in the snapshot's order, none left over and none missing.
C7_ListMirrorsSnapshot ==
  \A type \in ListType :
    Notified(type) =>
      LET expected == FilterBy(type, SnapshotOf(type))
          list     == lists[type]
      IN  /\ Items(objs, list.assignedProjects) = expected
          /\ Len(list.ul) = Len(expected)
          /\ \A i \in DOMAIN expected :
               /\ list.ul[i].id = expected[i].id
               /\ list.ul[i].h2 = expected[i].title
               /\ list.ul[i].p = expected[i].description
               /\ list.ul[i].project = list.assignedProjects[i]

\* A list that rendered an item renders other items after a drop.
C7_Witness ==
  /\ call.op = "drop"
  /\ Notified("active")
  /\ Notified("finished")
  /\ Len(Projects) = 2
  /\ Len(lists["active"].ul) = 1
  /\ Len(lists["finished"].ul) = 1
  /\ Projects[1].status = "Finished"

\* The identities of the items a list renders.
Rendered(ls, type) == {ls[type].ul[k].id : k \in DOMAIN ls[type].ul}

\* C8: when an item a list renders is dragged and dropped on a list, the
\* store's item with the dragged identity has the status of the target
\* list's category and, when the drop handler returns, the target list
\* renders it and no other list does.
C8_DropMovesItem ==
  [][(call'.op = "drop" /\ drag.active /\ drag.effectAllowed = "move") =>
       LET id     == drag.dataTransfer.data
           target == call'.list
       IN  /\ \E i \in DOMAIN Projects' :
                /\ Projects'[i].id = id
                /\ Projects'[i].status =
                     (IF target = "active" THEN "Active" ELSE "Finished")
           /\ id \in Rendered(lists', target)
           /\ \A other \in ListType \ {target} : id \notin Rendered(lists', other)]_vars

\* The scenario: "A" then "B" added, "A" dropped on the finished list: the
\* active list shows only "B", the finished list only "A".
C8_Witness ==
  /\ call.op = "drop"
  /\ call.list = "finished"
  /\ Len(Projects) = 2
  /\ Projects[1].title = Title1
  /\ Projects[2].title = Title2
  /\ [k \in DOMAIN lists["active"].ul |-> lists["active"].ul[k].h2] = <<Title2>>
  /\ [k \in DOMAIN lists["finished"].ul |-> lists["finished"].ul[k].h2] = <<Title1>>

-----------------------------------------------------------------------------
(* validate (ValidateSpec) and the input form (FormSpec) *)

\* What the constraints mean: required, the text of the value is not empty
\* after trimming; minLength and maxLength, bounds on a string's length;
\* min and max, bounds on a number.
Satisfies(input) ==
  LET v == input.value
  IN  /\ (Has(input, "required") /\ input.required) =>
            Trim(ValueToString(v)) # <<>>
      /\ (Has(input, "minLength") /\ v.t = "string") => Len(v.s) >= input.minLength
      /\ (Has(input, "maxLength") /\ v.t = "string") => Len(v.s) <= input.maxLength
      /\ (Has(input, "min") /\ v.t = "number") => Geq(v.x, Num(input.min))
      /\ (Has(input, "max") /\ v.t = "number") => Leq(v.x, Num(input.max))

\* C9: validate returns true exactly when the value satisfies every
\* constraint present.
C9_ValidateMeetsConstraints ==
  vout.done => (vout.result <=> Satisfies(vin))

\* The claim's first example has been run: validate({value: "", required: true}).
C9_Witness ==
  /\ vout.done
  /\ vin = [value |-> Str(<<>>), required |-> TRUE]

\* The constraints of the form: title required; description required, at
\* least 5 long; people required, between 0 and 10.
InputsValid(title, description, people) ==
  /\ Trim(title) # <<>>
  /\ Trim(description) # <<>>
  /\ Len(description) >= 5
  /\ Trim(people) # <<>>
  /\ Geq(ToNumber(people), Num(0))
  /\ Leq(ToNumber(people), Num(10))

\* C10: a submit with a value that fails its constraint alerts, does not
\* add and invokes no listener; a submit adds only when all three values
\* satisfy their constraints.
C10_InvalidInputIsRejected ==
  (call.op = "submit" /\ ~InputsValid(call.title, call.description, call.people)) =>
    /\ call.alerted
    /\ ~call.added
    /\ calls = <<>>

\* A submit with an empty title, which the form does reject.
C10_Witness ==
  /\ call.op = "submit"
  /\ call.title = <<>>
  /\ call.alerted
  /\ Len(listeners) = 2


\* The steps of every view constructed so far: the form, the lists and the
\* items the lists render.
ViewSteps ==
  (IF form.constructed THEN {form.steps} ELSE {})
    \cup {lists[type].steps : type \in {t \in ListType : lists[t].constructed}}
    \cup UNION {{lists[type].ul[k].steps : k \in DOMAIN lists[type].ul} :
                type \in ListType}

\* The order of construction: import, the id when one is given, one attach,
\* then configure, then renderContent, and nothing else.
InConstructionOrder(steps) ==
  \/ steps = <<"importNode", "id", "attach", "configure", "renderContent">>
  \/ steps = <<"importNode", "attach", "configure", "renderContent">>

\* C11: every view is constructed in the order import the template, assign
\* the id if one is given, attach the root once, configure(), renderContent();
\* no view finishes its construction without both configure() and
\* renderContent() having run, in that order, after the attach.
C11_ConstructionOrder == \A steps \in ViewSteps : InConstructionOrder(steps)

\* The form, a list and an item have all been constructed.
C11_Witness ==
  /\ form.constructed
  /\ \E type \in ListType : lists[type].constructed /\ lists[type].ul # <<>>

\* C12: a dragover with a recognised payload puts the list in the hover state
\* with the marker applied; a dragleave returns it to idle with the marker
\* removed; after a drop on the list the marker is no longer applied.
C12_MarkerFollowsDrag ==
  /\ (call.op = "dragover" /\ call.defaultPrevented) => lists[call.list].droppable
  /\ call.op = "dragleave" => ~lists[call.list].droppable
  /\ call.op = "drop" => ~lists[call.list].droppable

\* A drop that moved an item has been handled and the list is still marked.
C12_Witness ==
  /\ call.op = "drop"
  /\ ~call.threw
  /\ call.found
  /\ lists[call.list].droppable

\* The payload advertises text/plain among its types.
Advertises(transfer) ==
  /\ ~transfer.null
  /\ \E i \in DOMAIN transfer.types : transfer.types[i] = "text/plain"

\* The first type the payload advertises is text/plain.
AdvertisesFirst(transfer) ==
  /\ ~transfer.null
  /\ transfer.types # <<>>
  /\ transfer.types[1] = "text/plain"

\* What a dragover does for a payload that is, or is not, recognised: it is
\* accepted (default suppressed, marker applied) exactly when recognised;
\* when it is not, the lists are left as they were; the store is untouched
\* and no subscriber is notified either way.
DragOverRecognises(recognised) ==
  call'.op = "dragover" =>
    /\ call'.defaultPrevented <=> recognised
    /\ call'.defaultPrevented => lists'[call'.list].droppable
    /\ ~call'.defaultPrevented => lists' = lists
    /\ objs' = objs /\ arrays' = arrays /\ calls' = <<>>

\* C13 as stated: dragOverHandler accepts the event if and only if the
\* payload advertises the plain-text type.
C13_AcceptsIffAdvertised == [][DragOverRecognises(Advertises(drag.dataTransfer))]_vars

\* C13: dragOverHandler accepts the event if and only if the first type the
\* payload advertises is text/plain; otherwise the lists and the marker are
\* unchanged, the default is not suppressed and the store is untouched.
C13_AcceptsIffAdvertisedFirst ==
  [][DragOverRecognises(AdvertisesFirst(drag.dataTransfer))]_vars

\* A dragover was refused for a payload that advertises text/plain after
\* another type, and the list is not marked.
C13_Witness ==
  /\ call.op = "dragover"
  /\ ~call.defaultPrevented
  /\ drag.active
  /\ Advertises(drag.dataTransfer)
  /\ ~lists[call.list].droppable

\* The payload lacks the plain-text field: there is no payload, or it holds
\* other types only.
LacksText(transfer) == ~Advertises(transfer)

\* C14: a drop whose payload lacks the plain-text identity field is ignored:
\* the handler does not fail, no item's status changes and no subscriber is
\* notified.
C14_DropWithoutTextIsIgnored ==
  [][(call'.op = "drop" /\ drag.active /\ LacksText(drag.dataTransfer)) =>
       /\ ~call'.threw
       /\ objs' = objs
       /\ calls' = <<>>]_vars

\* A drop of an event without a dataTransfer has been handled, on a board
\* that shows an item.
C14_Witness ==
  /\ call.op = "drop"
  /\ call.threw
  /\ \E type \in ListType : lists[type].ul # <<>>

\* C15: a move of an existing item to the status it already has (an item
\* dropped on the list it is already in) still invokes every subscriber
\* once, in registration order, with a snapshot equal to the snapshot before
\* the call, and every list assigns and renders after the call what it did
\* before.
C15_SameStatusMoveRenotifies ==
  [][(/\ call'.op = "drop"
      /\ ~call'.threw
      /\ \E i \in DOMAIN Projects :
           /\ Projects[i].id = call'.id
           /\ Projects[i].status =
                (IF call'.list = "active" THEN "Active" ELSE "Finished")) =>
       /\ Projects' = Projects
       /\ calls' = [k \in DOMAIN listeners |->
                      [cb |-> listeners[k], items |-> Projects]]
       /\ \A type \in ListType :
            /\ lists'[type].ul = lists[type].ul
            /\ Items(objs', lists'[type].assignedProjects) =
                 Items(objs, lists[type].assignedProjects)]_vars

\* An item was dropped on the list it was dragged from, with both lists
\* listening and that list showing two items.
C15_Witness ==
  /\ call.op = "drop"
  /\ ~call.threw
  /\ call.found
  /\ call.from = call.list
  /\ Len(calls) = 2
  /\ Len(lists[call.list].ul) = 2

\* C16: the store never loses or reorders items: across every step the
\* items present before are a prefix of the items present after, object by
\* object and with the same id, title, description and people, and only a
\* move changes an item's status.
C16_StoreOnlyGrows ==
  [][/\ Len(Projects) <= Len(Projects')
     /\ \A i \in DOMAIN Projects :
          /\ arrays'[StoreRef][i] = arrays[StoreRef][i]
          /\ Fixed(Projects'[i]) = Fixed(Projects[i])
          /\ Projects'[i].status # Projects[i].status => call'.op = "move"]_vars

\* A subscriber has changed the array it was passed, after two adds and a
\* move of the first item: the store still holds the first item, moved,
\* then the second.
C16_Witness ==
  /\ call.op = "mutate"
  /\ Len(Projects) = 2
  /\ Projects[1].id = RandomToken(0)
  /\ Projects[1].status = "Finished"
  /\ Projects[2].id = RandomToken(1)
  /\ arrays[held["mutator"]] # arrays[StoreRef]

\* Both lists registered their listeners before the store's first mutation.
BothRegisteredFirst ==
  \A type \in ListType :
    lists[type].constructed /\ lists[type].registeredAt = 0

\* The status of the items of a list's category.
CategoryOf(type) == IF type = "active" THEN "Active" ELSE "Finished"

\* The lists' assigned items partition the store's: every item of the store
\* is assigned to the list of its status, once, and to no other list, and
\* the lists hold nothing else.
Partition ==
  /\ \A i \in DOMAIN arrays[StoreRef] :
       \A type \in ListType :
         Cardinality({k \in DOMAIN lists[type].assignedProjects :
                        lists[type].assignedProjects[k] = arrays[StoreRef][i]})
           = IF Projects[i].status = CategoryOf(type) THEN 1 ELSE 0
  /\ Len(lists["active"].assignedProjects) + Len(lists["finished"].assignedProjects)
       = Len(Projects)

\* C17: with both lists registered before the first mutation, after every
\* completed add or move the two lists' assigned items partition the store:
\* every item is in exactly one list and the sizes add up to the store's.
C17_ListsPartitionStore == BothRegisteredFirst => Partition

\* Both lists were registered first, two items were added and a drop has
\* moved one: each list holds one of them.
C17_Witness ==
  /\ BothRegisteredFirst
  /\ call.op = "drop"
  /\ Len(Projects) = 2
  /\ Len(lists["active"].assignedProjects) = 1
  /\ Len(lists["finished"].assignedProjects) = 1

\* The position in the store of the item an <li> renders: items are
\* appended, so it is the item's place in the order of insertion.
StoreIndex(li) == CHOOSE n \in DOMAIN arrays[StoreRef] : arrays[StoreRef][n] = li.project

\* C18: within each list the rendered items keep the store's insertion
\* order: of two items with the same status the one added earlier is
\* rendered first, so an item moved to Finished and back to Active is again
\* at its original place among the Active items.
C18_RenderedInInsertionOrder ==
  \A type \in ListType :
    \A i, j \in DOMAIN lists[type].ul :
      i < j => StoreIndex(lists[type].ul[i]) < StoreIndex(lists[type].ul[j])

\* The first of two items was dragged from the finished list and dropped
\* on the active list: the active list shows it before the second.
C18_Witness ==
  /\ call.op = "drop"
  /\ call.list = "active"
  /\ call.from = "finished"
  /\ Len(Projects) = 2
  /\ call.id = Projects[1].id
  /\ Len(lists["active"].ul) = 2
  /\ lists["active"].ul[1].id = Projects[1].id
  /\ lists["active"].ul[2].id = Projects[2].id

\* The last handler changed the board's store: an add, or a drop whose
\* item was found.
BoardMutation ==
  \/ call.op = "add"
  \/ call.op = "drop" /\ ~call.threw /\ call.found

\* C19: registration does not replay.  A list is constructed holding and
\* rendering nothing, whatever the store holds, and no listener is invoked;
\* it stays so across every step that is not an add or a move that found
\* its item; that step notifies it, and it then holds and renders the items
\* of its status out of the whole store, those added before it was
\* constructed included.
C19_RegistrationDoesNotReplay ==
  [][/\ (call'.op = "construct" /\ call'.list \in ListType) =>
          /\ lists'[call'.list].assignedProjects = <<>>
          /\ lists'[call'.list].ul = <<>>
          /\ calls' = <<>>
     /\ \A type \in ListType :
          lists[type].constructed =>
            IF BoardMutation'
            THEN /\ \E k \in DOMAIN calls' : calls'[k].cb = type
                 /\ Items(objs', lists'[type].assignedProjects) =
                      FilterBy(type, Projects')
                 /\ [k \in DOMAIN lists'[type].ul |-> lists'[type].ul[k].project] =
                      lists'[type].assignedProjects
            ELSE /\ lists'[type].assignedProjects = lists[type].assignedProjects
                 /\ lists'[type].ul = lists[type].ul]_vars

\* A list constructed after the first item was added has been notified by
\* the add of the second, and renders the first.
C19_Witness ==
  \E type \in ListType :
    /\ lists[type].registeredAt = 1
    /\ call.op = "add"
    /\ Len(Projects) = 2
    /\ Len(lists[type].ul) = 2
    /\ lists[type].ul[1].id = Projects[1].id

====
